---- MODULE Spec2Model ----
(***************************************************************************)
(* pyslicer: the SlicingDice client.  The model covers the key resolver    *)
(* and authorization check (api.py), the request dispatcher and response   *)
(* handler (api.py), the public operations (client.py) and the error       *)
(* catalog (core/helper_handler_exceptions.py).                            *)
(*                                                                         *)
(* Python values: None is the empty tuple and a value v that may be None   *)
(* is the one-element tuple <<v>>.  The outcome of a call is a record,     *)
(* Return(v) or Raise(exception class, message).                           *)
(***************************************************************************)
EXTENDS Integers, Sequences, FiniteSets, TLC

None == << >>

Some(v) == <<v>>

Return(v) == [kind |-> "return", value |-> v]

Raise(e, m) == [kind |-> "raise", exc |-> e, msg |-> m]

(***************************************************************************)
(* Error catalog: core/helper_handler_exceptions.py                        *)
(***************************************************************************)

\* __mapped_errors: the dict literal, code -> exception class.
mapped_errors ==
    10 :> "AuthMissingHeaderException"
    @@ 11 :> "AuthAPIKeyException"
    @@ 12 :> "AuthInvalidAPIKeyException"
    @@ 13 :> "AuthIncorrectPermissionException"
    @@ 14 :> "AuthInvalidRemoteException"
    @@ 15 :> "CustomKeyInvalidFieldCreationException"
    @@ 16 :> "CustomKeyInvalidPermissionForFieldException"
    @@ 17 :> "CustomKeyInvalidOperationException"
    @@ 18 :> "CustomKeyNotPermittedException"
    @@ 19 :> "CustomKeyRouteNotPermittedException"
    @@ 20 :> "DemoApiInvalidEndpointException"
    @@ 21 :> "RequestMissingContentTypeException"
    @@ 22 :> "RequestIncorrectContentTypeValueException"
    @@ 23 :> "RequestRateLimitException"
    @@ 24 :> "RequestInvalidJsonException"
    @@ 25 :> "RequestInvalidHttpMethodException"
    @@ 26 :> "RequestInvalidEndpointException"
    @@ 27 :> "RequestIncorrectHttpException"
    @@ 28 :> "RequestExceedLimitException"
    @@ 30 :> "AccountMissingPaymentMethodException"
    @@ 31 :> "AccountPaymentRequiredException"
    @@ 32 :> "AccountBannedException"
    @@ 33 :> "AccountDisabledException"
    @@ 39 :> "FieldInvalidRangeException"
    @@ 40 :> "FieldMissingParamException"
    @@ 41 :> "FieldTypeException"
    @@ 42 :> "FieldIntegerValuesException"
    @@ 43 :> "FieldAlreadyExistsException"
    @@ 44 :> "FieldLimitException"
    @@ 45 :> "FieldTimeSeriesLimitException"
    @@ 46 :> "FieldTimeSeriesSystemLimitException"
    @@ 47 :> "FieldDecimalTypeException"
    @@ 48 :> "FieldStorageValueException"
    @@ 49 :> "FieldInvalidApiNameException"
    @@ 50 :> "FieldInvalidNameException"
    @@ 51 :> "FieldInvalidDescriptionException"
    @@ 52 :> "FieldExceedDescriptionlengthException"
    @@ 53 :> "FieldInvalidCardinalityException"
    @@ 54 :> "FieldDecimalLimitException"
    @@ 55 :> "FieldRangeLimitException"
    @@ 56 :> "FieldExceededMaxNameLenghtException"
    @@ 57 :> "FieldExceededMaxApiNameLenghtException"
    @@ 58 :> "FieldEmptyEntityIdException"
    @@ 59 :> "FieldExceededPermitedValueException"
    @@ 60 :> "IndexInvalidDecimalPlacesException"
    @@ 61 :> "IndexEntityValueTypeException"
    @@ 62 :> "IndexFieldNameTypeException"
    @@ 63 :> "IndexFieldTypeException"
    @@ 64 :> "IndexEntityNameTooBigException"
    @@ 65 :> "IndexFieldValueTooBigException"
    @@ 66 :> "IndexTimeSeriesDateFormatException"
    @@ 67 :> "IndexFieldNotActiveException"
    @@ 68 :> "IndexIdLimitException"
    @@ 69 :> "IndexFieldLimitException"
    @@ 70 :> "IndexDateFormatException"
    @@ 71 :> "IndexFieldStringEmptyValueException"
    @@ 72 :> "IndexFieldTimeseriesInvalidParameterException"
    @@ 73 :> "IndexFieldNumericInvalidValueException"
    @@ 74 :> "IndexFieldTimeseriesMissingValueException"
    @@ 75 :> "QueryTimeSeriesInvalidPrecisionSecondsException"
    @@ 76 :> "QueryTimeSeriesInvalidPrecisionMinutesException"
    @@ 77 :> "QueryTimeSeriesInvalidPrecisionHoursException"
    @@ 78 :> "QueryDateFormatException"
    @@ 79 :> "QueryRelativeIntervalException"
    @@ 80 :> "QueryMissingQueryException"
    @@ 81 :> "QueryInvalidTypeException"
    @@ 82 :> "QueryMissingTypeParamException"
    @@ 83 :> "QueryInvalidOperatorException"
    @@ 84 :> "QueryIncorrectOperatorUsageException"
    @@ 85 :> "QueryFieldNotActiveException"
    @@ 86 :> "QueryMissingOperatorException"
    @@ 87 :> "QueryIncompleteException"
    @@ 88 :> "QueryEventCountQueryException"
    @@ 89 :> "QueryInvalidMetricException"
    @@ 90 :> "QueryIntegerException"
    @@ 91 :> "QueryFieldLimitException"
    @@ 92 :> "QueryLevelLimitException"
    @@ 93 :> "QueryBadAggsFormationException"
    @@ 94 :> "QueryInvalidAggFilterException"
    @@ 95 :> "QueryMetricsLevelException"
    @@ 96 :> "QueryTimeSeriesException"
    @@ 97 :> "QueryMetricsTypeException"
    @@ 98 :> "QueryContainsNumericException"
    @@ 99 :> "QueryExistsEntityLimitException"
    @@ 100 :> "QueryMultipleFiltersException"
    @@ 102 :> "QueryMissingNameParamException"
    @@ 103 :> "QuerySavedAlreadyExistsException"
    @@ 104 :> "QuerySavedNotExistsException"
    @@ 105 :> "QuerySavedInvalidTypeException"
    @@ 106 :> "MethodNotAllowedException"
    @@ 107 :> "QueryExistsMissingIdsException"
    @@ 108 :> "QueryInvalidFormatException"
    @@ 109 :> "QueryTopValuesParameterEmptyException"
    @@ 110 :> "QueryDataExtractionLimitValueException"
    @@ 111 :> "QueryDataExtractionLimitValueTooBigException"
    @@ 112 :> "QueryDataExtractionLimitAndPageTokenValueException"
    @@ 113 :> "QueryDataExtractionPageTokenValueException"
    @@ 114 :> "QueryDataExtractionFieldLimitException"
    @@ 115 :> "QueryExistsEntityEmptyException"
    @@ 116 :> "QuerySavedInvalidQueryValueException"
    @@ 117 :> "QuerySavedInvalidCachePeriodValueException"
    @@ 118 :> "QuerySavedInvalidNameException"
    @@ 119 :> "QueryCountInvalidParameterException"
    @@ 120 :> "QueryAggregationInvalidParameterException"
    @@ 121 :> "QueryAggregationInvalidFilterQueryException"
    @@ 122 :> "QueryInvalidMinfreqException"
    @@ 123 :> "QueryExceededMaxNumberQuerysException"
    @@ 124 :> "QueryInvalidOperatorUsageException"
    @@ 125 :> "QueryInvalidParameterUsageException"
    @@ 126 :> "QueryParameterInvalidFieldUsageException"
    @@ 127 :> "QueryInvalidFieldUsageException"
    @@ 130 :> "InternalException"
    @@ 131 :> "FieldCreateInternalException"

\* The default factory of slicer_exceptions: lambda: exceptions.SlicingDiceException
default_factory == "SlicingDiceException"

\* The lookup on a plain dict with dict.get(code): None for a missing key, and
\* nothing stored.
slicer_exceptions_get(table, code) ==
    IF code \in DOMAIN table
    THEN [value |-> table[code], table |-> table]
    ELSE [value |-> "None", table |-> table]

\* slicer_exceptions[code] on the defaultdict: dict.__getitem__ for a key the dict
\* holds; for a missing key defaultdict.__missing__ calls the factory, stores its
\* value under the key and returns it.  The result is the value and the dict after.
slicer_exceptions_getitem(table, code) ==
    IF code \in DOMAIN table
    THEN [value |-> table[code], table |-> table]
    ELSE [value |-> default_factory, table |-> table @@ (code :> default_factory)]

(***************************************************************************)
(* Key resolver: api.py                                                    *)
(***************************************************************************)

\* The key strings a caller may pass; the empty string is a str like any other.
KeyStrings == {"", "k1", "k2"}

\* A key argument: None (the default) or a string.
KeyArgs == {None} \cup {Some(k) : k \in KeyStrings}

_organize_keys(master_key, custom_key, read_key, write_key) ==
    [master_key |-> master_key, custom_key |-> custom_key,
     read_key |-> read_key, write_key |-> write_key]

\* _get_key with the read slot tried before the write slot.
_get_key_read_first(ks) ==
    IF ks.master_key # None THEN Return(<<ks.master_key[1], 2>>)
    ELSE IF ks.custom_key # None THEN Return(<<ks.custom_key[1], 2>>)
    ELSE IF ks.read_key # None THEN Return(<<ks.read_key[1], 0>>)
    ELSE IF ks.write_key # None THEN Return(<<ks.write_key[1], 1>>)
    ELSE Raise("InvalidSlicingDiceKeysException", "You need put a key.")

\* Returns [key, level], or raises when every slot is None.
_get_key(ks) ==
    IF ks.master_key # None THEN Return(<<ks.master_key[1], 2>>)
    ELSE IF ks.custom_key # None THEN Return(<<ks.custom_key[1], 2>>)
    ELSE IF ks.write_key # None THEN Return(<<ks.write_key[1], 1>>)
    ELSE IF ks.read_key # None THEN Return(<<ks.read_key[1], 0>>)
    ELSE Raise("InvalidSlicingDiceKeysException", "You need put a key.")

\* _check_key with the levels taken as a hierarchy: a key of a higher level
\* passes for an operation of a lower one.
_check_key_hierarchy(ks, key_level) ==
    LET current_key_level == _get_key(ks) IN
    IF current_key_level.kind = "raise" THEN current_key_level
    ELSE IF current_key_level.value[2] < key_level
    THEN Raise("InvalidSlicingDiceKeysException",
               "This key is not allowed to perform this operation.")
    ELSE Return(current_key_level.value[1])

\* Returns the resolved key when its level is 2 or equals key_level.
_check_key(ks, key_level) ==
    LET current_key_level == _get_key(ks) IN
    IF current_key_level.kind = "raise" THEN current_key_level
    ELSE IF current_key_level.value[2] = 2 THEN Return(current_key_level.value[1])
    ELSE IF current_key_level.value[2] # key_level
    THEN Raise("InvalidSlicingDiceKeysException",
               "This key is not allowed to perform this operation.")
    ELSE Return(current_key_level.value[1])

\* SlicingDiceAPI.__init__: the object's fields, or the exception _get_key raised.
SlicingDiceAPI_init(master_key, write_key, read_key, custom_key) ==
    LET ks == _organize_keys(master_key, custom_key, read_key, write_key)
        k == _get_key(ks)
    IN  IF k.kind = "raise"
        THEN [out |-> k, keys |-> ks, api_key |-> None]
        ELSE [out |-> Return("SlicingDice"), keys |-> ks, api_key |-> Some(k.value[1])]

\* SlicingDice.__init__: passes its arguments on by position.
SlicingDice_init(write_key, read_key, master_key, custom_key) ==
    SlicingDiceAPI_init(master_key, write_key, read_key, custom_key)

(***************************************************************************)
(* The network: what the service answers to one request                    *)
(***************************************************************************)

\* requests.codes.ok
codes_ok == 200

\* Response header mappings.
Headers1 == ("Content-Type" :> "application/json")

Headers2 == ("Content-Type" :> "application/json" @@ "X-Request-Id" :> "r2")

TextOk == "{\"status\": \"ok\"}"

TextCode42 == "{\"code\": 42, \"message\": \"Field integer values exception\"}"

TextCode29 == "{\"code\": 29, \"message\": \"unknown\"}"

TextHtml == "<html>Bad Gateway</html>"

response(status, text, hdrs) ==
    [status_code |-> status, text |-> text, headers |-> hdrs]

\* The responses tried: success with either header mapping, a body without an
\* error code under a server error status, a mapped error code under the
\* success status and under a server error status, an unmapped error code, and
\* a body that is not JSON.
Responses ==
    { response(codes_ok, TextOk, Headers1),
      response(codes_ok, TextOk, Headers2),
      response(500, TextOk, Headers1),
      response(codes_ok, TextCode42, Headers1),
      response(500, TextCode42, Headers2),
      response(codes_ok, TextCode29, Headers2),
      response(500, TextHtml, Headers1) }

NetFailure == [kind |-> "failure"]

\* What the network does with one request: it answers, or the exchange fails
\* (connection error, timeout).
Net == {[kind |-> "response", response |-> r] : r \in Responses} \cup {NetFailure}

\* ujson.loads on the bodies above: the decoded object, or ValueError.
loads(text) ==
    CASE text = TextOk -> Return([status |-> "ok"])
      [] text = TextCode42 ->
            Return([code |-> 42, message |-> "Field integer values exception"])
      [] text = TextCode29 -> Return([code |-> 29, message |-> "unknown"])
      [] OTHER -> Raise("ValueError", "Expected object or value")

\* Requester.post / get / put: one exchange with the network.  Returns the
\* response object or lets the transport's exception through.
Requester(method, net) ==
    IF net.kind = "failure"
    THEN Raise("RequestException", "")
    ELSE Return(net.response)

(***************************************************************************)
(* Response handler: api.py, core/handler_response.py                      *)
(***************************************************************************)

SDHandlerResponse(result, status_code, headers) ==
    [result |-> result, status_code |-> status_code, headers |-> headers]

\* SDHandlerResponse.request_successful: a body with a service error code
\* raises the class the error catalog gives for the code; otherwise True.
request_successful(sd_response, table) ==
    IF "code" \in DOMAIN sd_response.result
    THEN LET l == slicer_exceptions_getitem(table, sd_response.result.code) IN
         [out |-> Raise(l.value, sd_response.result.message), table |-> l.table]
    ELSE [out |-> Return(TRUE), table |-> table]

\* _check_request that accepts every status.
_check_request_any_status(request) == Return(TRUE)

_check_request(request) ==
    IF request.status_code # codes_ok
    THEN Raise("SlicingDiceHTTPError",
               "HTTP status code: " \o ToString(request.status_code))
    ELSE Return(TRUE)

\* _set_properties_values that stores the status and leaves the headers out.
_set_properties_values_no_headers(sd_response) ==
    [status_code |-> Some(sd_response.status_code), headers |-> None]

\* int(status_code) and dict(headers): the values to store.
_set_properties_values(sd_response) ==
    [status_code |-> Some(sd_response.status_code),
     headers |-> Some([k \in DOMAIN sd_response.headers |-> sd_response.headers[k]])]

\* _handler_request with the status checked before the body's error code.
_handler_request_status_first(table, req) ==
    IF req = None
    THEN [out |-> Raise("SlicingDiceException", "Bad request."),
          table |-> table, store |-> None]
    ELSE
    LET result == loads(req[1].text) IN
    IF result.kind = "raise"
    THEN [out |-> Raise("InternalException",
                        "Error while trying to load Json: " \o result.msg),
          table |-> table, store |-> None]
    ELSE
    LET sd_response ==
            SDHandlerResponse(result.value, req[1].status_code, req[1].headers)
        chk == _check_request(req[1])
    IN  IF chk.kind = "raise"
        THEN [out |-> chk, table |-> table, store |-> None]
        ELSE
        LET ok == request_successful(sd_response, table) IN
        IF ok.out.kind = "raise"
        THEN [out |-> ok.out, table |-> ok.table, store |-> None]
        ELSE [out |-> Return(sd_response.result), table |-> ok.table,
              store |-> Some(sd_response)]

\* _handler_request with _set_properties_values called before _check_request.
_handler_request_store_early(table, req) ==
    IF req = None
    THEN [out |-> Raise("SlicingDiceException", "Bad request."),
          table |-> table, store |-> None]
    ELSE
    LET result == loads(req[1].text) IN
    IF result.kind = "raise"
    THEN [out |-> Raise("InternalException",
                        "Error while trying to load Json: " \o result.msg),
          table |-> table, store |-> None]
    ELSE
    LET sd_response ==
            SDHandlerResponse(result.value, req[1].status_code, req[1].headers)
        ok == request_successful(sd_response, table)
    IN  IF ok.out.kind = "raise"
        THEN [out |-> ok.out, table |-> ok.table, store |-> None]
        ELSE
        LET chk == _check_request(req[1]) IN
        [out |-> IF chk.kind = "raise" THEN chk ELSE Return(sd_response.result),
         table |-> ok.table, store |-> Some(sd_response)]

\* _handler_request up to the call of _set_properties_values: the outcome, the
\* error catalog after, and the sd_response to store when that call is reached.
\* req is None or <<response>>.
_handler_request(table, req) ==
    IF req = None
    THEN [out |-> Raise("SlicingDiceException", "Bad request."),
          table |-> table, store |-> None]
    ELSE
    LET result == loads(req[1].text) IN
    IF result.kind = "raise"
    THEN [out |-> Raise("InternalException",
                        "Error while trying to load Json: " \o result.msg),
          table |-> table, store |-> None]
    ELSE
    LET sd_response ==
            SDHandlerResponse(result.value, req[1].status_code, req[1].headers)
        ok == request_successful(sd_response, table)
    IN  IF ok.out.kind = "raise"
        THEN [out |-> ok.out, table |-> ok.table, store |-> None]
        ELSE
        LET chk == _check_request(req[1]) IN
        IF chk.kind = "raise"
        THEN [out |-> chk, table |-> ok.table, store |-> None]
        ELSE [out |-> Return(sd_response.result), table |-> ok.table,
              store |-> Some(sd_response)]

(***************************************************************************)
(* Request dispatcher: api.py                                              *)
(***************************************************************************)

\* The branch on req_type with "delete" sent by a delete method of the
\* Requester.
requester_method_delete(req_type) ==
    CASE req_type = "post" -> Some("post")
      [] req_type = "get" -> Some("get")
      [] req_type = "delete" -> Some("delete")
      [] req_type = "put" -> Some("put")
      [] OTHER -> None

\* The branch of _make_request on req_type: the Requester method called, if any.
requester_method(req_type) ==
    CASE req_type = "post" -> Some("post")
      [] req_type = "get" -> Some("get")
      [] req_type = "delete" -> Some("get")
      [] req_type = "put" -> Some("put")
      [] OTHER -> None

\* _make_request_send that calls the Requester a second time when the first
\* exchange fails.
_make_request_send_retry(self, url, req_type, key_level, json_data, net) ==
    LET auth == _check_key(self.keys, key_level) IN
    IF auth.kind = "raise"
    THEN [out |-> auth, sent |-> << >>, req |-> None]
    ELSE
    LET headers == [ContentType |-> "application/json",
                    Authorization |-> self.api_key]
        m == requester_method(req_type)
    IN  IF m = None
        THEN [out |-> Return(TRUE), sent |-> << >>, req |-> None]
        ELSE
        LET call == [method |-> m[1], url |-> url, headers |-> headers,
                     data |-> IF m[1] = "get" THEN None ELSE json_data]
            req == Requester(m[1], net)
        IN  IF req.kind = "raise"
            THEN [out |-> req, sent |-> <<call, call>>, req |-> None]
            ELSE [out |-> Return(TRUE), sent |-> <<call>>, req |-> Some(req.value)]

\* _make_request up to the Requester's return: the key check, the headers and
\* the one Requester call.  sent lists the Requester calls made (method, url,
\* headers, body); req is the response object to hand to _handler_request.
_make_request_send(self, url, req_type, key_level, json_data, net) ==
    LET auth == _check_key(self.keys, key_level) IN
    IF auth.kind = "raise"
    THEN [out |-> auth, sent |-> << >>, req |-> None]
    ELSE
    LET headers == [ContentType |-> "application/json",
                    Authorization |-> self.api_key]
        m == requester_method(req_type)
    IN  IF m = None
        THEN [out |-> Return(TRUE), sent |-> << >>, req |-> None]
        ELSE
        LET sent == <<[method |-> m[1], url |-> url, headers |-> headers,
                       data |-> IF m[1] = "get" THEN None ELSE json_data]>>
            req == Requester(m[1], net)
        IN  IF req.kind = "raise"
            THEN [out |-> req, sent |-> sent, req |-> None]
            ELSE [out |-> Return(TRUE), sent |-> sent, req |-> Some(req.value)]

\* _make_request up to the call of _set_properties_values.
_make_request(self, table, url, req_type, key_level, json_data, net) ==
    LET s == _make_request_send(self, url, req_type, key_level, json_data, net) IN
    IF s.out.kind = "raise"
    THEN [out |-> s.out, sent |-> s.sent, req |-> None, table |-> table,
          store |-> None]
    ELSE
    LET h == _handler_request(table, s.req) IN
    [out |-> h.out, sent |-> s.sent, req |-> s.req, table |-> h.table,
     store |-> h.store]

(***************************************************************************)
(* Public operations: client.py                                            *)
(***************************************************************************)

\* aggregation: the most columns a query may name.
max_columns == 5

\* exists_entity: the most ids a query may name.
max_ids == 100

\* A call that ends before _make_request.
not_sent(out, table) ==
    [out |-> out, sent |-> << >>, req |-> None, table |-> table, store |-> None]

\* ujson.dumps(payload): the request body.
dumps == Some("json")

\* validators.<Class>(payload).validator(): True for a payload that obeys the
\* rules of its shape, a validation error for one that does not.
validator(class, valid) ==
    IF valid THEN Return(TRUE) ELSE Raise("ValidationError", class)

\* SlicingDice.BASE_URL, with SD_API_ADDRESS not set.
BASE_URL == "https://api.slicingdice.com/v1"

\* A url is the tuple of the strings the code concatenates with +; the path
\* constants of URLResources stand for themselves.
URLResources(name) == <<"URLResources." \o name>>

_wrapper_test(self) ==
    IF self.uses_test_endpoint THEN <<BASE_URL>> \o <<"/test">> ELSE <<BASE_URL>>

_count_query_wrapper(self, table, url, valid, net) ==
    LET v == validator("QueryCountValidator", valid) IN
    IF v.kind = "raise" THEN not_sent(v, table)
    ELSE _make_request(self, table, url, "post", 0, dumps, net)

_data_extraction_wrapper(self, table, url, valid, net) ==
    LET v == validator("QueryDataExtractionValidator", valid) IN
    IF v.kind = "raise" THEN not_sent(v, table)
    ELSE _make_request(self, table, url, "post", 0, dumps, net)

_saved_query_wrapper(self, table, url, update, net) ==
    _make_request(self, table, url, IF update THEN "put" ELSE "post", 2, dumps,
                  net)

get_database(self, table, net) ==
    _make_request(self, table, <<BASE_URL>> \o URLResources("DATABASE"), "get", 2,
                  None, net)

\* create_column with the key checked before the payload.
create_column_key_first(self, table, valid, net) ==
    LET url == _wrapper_test(self) \o URLResources("COLUMN")
        auth == _check_key(self.keys, 1)
        v == validator("ColumnValidator", valid)
    IN  IF auth.kind = "raise" THEN not_sent(auth, table)
        ELSE IF v.kind = "raise" THEN not_sent(v, table)
        ELSE _make_request(self, table, url, "post", 1, dumps, net)

create_column(self, table, valid, net) ==
    LET base_url == _wrapper_test(self)
        v == validator("ColumnValidator", valid)
    IN  IF v.kind = "raise" THEN not_sent(v, table)
        ELSE _make_request(self, table, base_url \o URLResources("COLUMN"),
                           "post", 1, dumps, net)

get_columns(self, table, net) ==
    _make_request(self, table, _wrapper_test(self) \o URLResources("COLUMN"),
                  "get", 2, None, net)

\* insert asking for the read level.
insert_read_level(self, table, valid, net) ==
    LET v == validator("InsertValidator", valid) IN
    IF v.kind = "raise" THEN not_sent(v, table)
    ELSE _make_request(self, table, _wrapper_test(self) \o URLResources("INSERT"),
                       "post", 0, dumps, net)

insert(self, table, valid, net) ==
    LET base_url == _wrapper_test(self)
        v == validator("InsertValidator", valid)
    IN  IF v.kind = "raise" THEN not_sent(v, table)
        ELSE _make_request(self, table, base_url \o URLResources("INSERT"),
                           "post", 1, dumps, net)

count_entity(self, table, valid, net) ==
    _count_query_wrapper(
        self, table, _wrapper_test(self) \o URLResources("QUERY_COUNT_ENTITY"),
        valid, net)

count_entity_total(self, table, net) ==
    _make_request(
        self, table,
        _wrapper_test(self) \o URLResources("QUERY_COUNT_ENTITY_TOTAL"),
        "post", 0, dumps, net)

count_event(self, table, valid, net) ==
    _count_query_wrapper(
        self, table, _wrapper_test(self) \o URLResources("QUERY_COUNT_EVENT"),
        valid, net)

\* has_query: "query" in query; ncols: len(query["query"]).
aggregation(self, table, has_query, ncols, net) ==
    IF ~has_query
    THEN not_sent(Raise("InvalidQueryException",
                        "The aggregation query must have up the key 'query'."),
                  table)
    ELSE IF ncols > max_columns
    THEN not_sent(Raise("MaxLimitException",
                        "The aggregation query must have up to 5 columns per request."),
                  table)
    ELSE _make_request(
            self, table, _wrapper_test(self) \o URLResources("QUERY_AGGREGATION"),
            "post", 0, dumps, net)

top_values(self, table, valid, net) ==
    LET url == _wrapper_test(self) \o URLResources("QUERY_TOP_VALUES")
        v == validator("QueryValidator", valid)
    IN  IF v.kind = "raise" THEN not_sent(v, table)
        ELSE _make_request(self, table, url, "post", 0, dumps, net)

\* nids: len(ids).
exists_entity(self, table, nids, net) ==
    IF nids > max_ids
    THEN not_sent(Raise("MaxLimitException",
                        "The query exists entity must have up to 100 ids."),
                  table)
    ELSE _make_request(
            self, table,
            _wrapper_test(self) \o URLResources("QUERY_EXISTS_ENTITY"),
            "post", 0, dumps, net)

get_saved_query(self, table, query_name, net) ==
    _make_request(
        self, table,
        _wrapper_test(self) \o URLResources("QUERY_SAVED") \o <<query_name>>,
        "get", 0, None, net)

get_saved_queries(self, table, net) ==
    _make_request(self, table, _wrapper_test(self) \o URLResources("QUERY_SAVED"),
                  "get", 2, None, net)

delete_saved_query(self, table, query_name, net) ==
    _make_request(
        self, table,
        _wrapper_test(self) \o URLResources("QUERY_SAVED") \o <<query_name>>,
        "delete", 2, None, net)

create_saved_query(self, table, net) ==
    _saved_query_wrapper(
        self, table, _wrapper_test(self) \o URLResources("QUERY_SAVED"), FALSE,
        net)

update_saved_query(self, table, name, net) ==
    _saved_query_wrapper(
        self, table,
        _wrapper_test(self) \o URLResources("QUERY_SAVED") \o <<name>>, TRUE, net)

result(self, table, valid, net) ==
    _data_extraction_wrapper(
        self, table,
        _wrapper_test(self) \o URLResources("QUERY_DATA_EXTRACTION_RESULT"),
        valid, net)

score(self, table, valid, net) ==
    _data_extraction_wrapper(
        self, table,
        _wrapper_test(self) \o URLResources("QUERY_DATA_EXTRACTION_SCORE"),
        valid, net)

(***************************************************************************)
(* State                                                                   *)
(***************************************************************************)

VARIABLES
    args,               \* the key arguments the constructor was called with
    init_out,           \* the constructor's outcome: the object, or the exception
    keys,               \* self.keys
    api_key,            \* self._api_key
    uses_test_endpoint, \* self.uses_test_endpoint
    status_code,        \* self.__status_code
    headers,            \* self.__headers
    slicer_exceptions,  \* the module's defaultdict
    last,               \* the latest call of a public operation: inputs and outcome
    keycall,            \* the latest direct call of _get_key or _check_key
    looked,             \* the latest direct lookup in slicer_exceptions
    nlookups,           \* the number of direct lookups made
    pc,                 \* per thread: where its call of _make_request stands
    frame               \* per thread: the response object its call holds

vars ==
    <<args, init_out, uses_test_endpoint, keys, api_key, status_code, headers,
      slicer_exceptions, last, keycall, looked, nlookups, pc, frame>>

Threads == {1, 2}

\* No call yet.
NoCall ==
    [op |-> "", input |-> << >>, sent |-> << >>, req |-> None,
     out |-> [kind |-> "none"]]

NoKeyCall == [fn |-> "", key_level |-> 0, out |-> [kind |-> "none"]]

NoLookup == [code |-> 0, value |-> ""]

\* The client object exists.
Ready == init_out.kind = "return"

Self ==
    [keys |-> keys, api_key |-> api_key, status_code |-> status_code,
     headers |-> headers, uses_test_endpoint |-> uses_test_endpoint]

key_args(write_key, read_key, master_key, custom_key) ==
    [write_key |-> write_key, read_key |-> read_key,
     master_key |-> master_key, custom_key |-> custom_key]

\* Every choice of the four key arguments.
AllArgs ==
    [write_key : KeyArgs, read_key : KeyArgs, master_key : KeyArgs,
     custom_key : KeyArgs]

\* The clients the public operations are run on: no key, each level alone and
\* mixed, and an empty string as the only key.
ClientArgs ==
    { key_args(None, None, None, None),
      key_args(None, Some("rk"), None, None),
      key_args(Some("wk"), None, None, None),
      key_args(Some("wk"), Some("rk"), None, None),
      key_args(None, None, None, Some("")),
      key_args(None, None, Some("mk"), None),
      key_args(Some("wk"), None, None, Some("ck")),
      key_args(Some("wk"), Some("rk"), Some("mk"), Some("ck")) }

\* The state after SlicingDice(write_key, read_key, master_key, custom_key,
\* uses_test_endpoint=test) for a choice of the key arguments in S and of test;
\* the module's table is as built.
InitWith(S) ==
    \E a \in S, test \in BOOLEAN :
        LET o == SlicingDice_init(a.write_key, a.read_key, a.master_key,
                                  a.custom_key) IN
        /\ args = a
        /\ init_out = o.out
        /\ keys = o.keys
        /\ api_key = o.api_key
        /\ uses_test_endpoint = test
        /\ status_code = None
        /\ headers = None
        /\ slicer_exceptions = mapped_errors
        /\ last = NoCall
        /\ keycall = NoKeyCall
        /\ looked = NoLookup
        /\ nlookups = 0
        /\ pc = [t \in Threads |-> "idle"]
        /\ frame = [t \in Threads |-> None]

Init == InitWith(ClientArgs)

\* One call of a public operation, from entry to return or raise: r is what the
\* operation computed; _set_properties_values stores when the call reached it.
Apply(op, input, r) ==
    /\ last' = [op |-> op, input |-> input, sent |-> r.sent, req |-> r.req,
                out |-> r.out]
    /\ slicer_exceptions' = r.table
    /\ IF r.store = None
       THEN UNCHANGED <<status_code, headers>>
       ELSE LET p == _set_properties_values(r.store[1]) IN
            /\ status_code' = p.status_code
            /\ headers' = p.headers
    /\ UNCHANGED <<args, init_out, uses_test_endpoint, keys, api_key, keycall, looked, nlookups,
                   pc, frame>>

\* Payload sizes tried around the limits.
Columns == {max_columns, max_columns + 1}

Ids == {max_ids, max_ids + 1}

\* Saved query names.
Names == {"q1", "q2"}

call_get_database ==
    /\ Ready
    /\ \E net \in Net :
        Apply("get_database", << >>, get_database(Self, slicer_exceptions, net))

call_create_column ==
    /\ Ready
    /\ \E valid \in BOOLEAN, net \in Net :
        Apply("create_column", [valid |-> valid],
              create_column(Self, slicer_exceptions, valid, net))

call_get_columns ==
    /\ Ready
    /\ \E net \in Net :
        Apply("get_columns", << >>, get_columns(Self, slicer_exceptions, net))

call_insert ==
    /\ Ready
    /\ \E valid \in BOOLEAN, net \in Net :
        Apply("insert", [valid |-> valid],
              insert(Self, slicer_exceptions, valid, net))

call_count_entity ==
    /\ Ready
    /\ \E valid \in BOOLEAN, net \in Net :
        Apply("count_entity", [valid |-> valid],
              count_entity(Self, slicer_exceptions, valid, net))

call_count_entity_total ==
    /\ Ready
    /\ \E net \in Net :
        Apply("count_entity_total", << >>,
              count_entity_total(Self, slicer_exceptions, net))

call_count_event ==
    /\ Ready
    /\ \E valid \in BOOLEAN, net \in Net :
        Apply("count_event", [valid |-> valid],
              count_event(Self, slicer_exceptions, valid, net))

call_aggregation ==
    /\ Ready
    /\ \E has_query \in BOOLEAN, ncols \in Columns, net \in Net :
        Apply("aggregation", [has_query |-> has_query, ncols |-> ncols],
              aggregation(Self, slicer_exceptions, has_query, ncols, net))

call_top_values ==
    /\ Ready
    /\ \E valid \in BOOLEAN, net \in Net :
        Apply("top_values", [valid |-> valid],
              top_values(Self, slicer_exceptions, valid, net))

call_exists_entity ==
    /\ Ready
    /\ \E nids \in Ids, net \in Net :
        Apply("exists_entity", [nids |-> nids],
              exists_entity(Self, slicer_exceptions, nids, net))

call_get_saved_query ==
    /\ Ready
    /\ \E query_name \in Names, net \in Net :
        Apply("get_saved_query", [query_name |-> query_name],
              get_saved_query(Self, slicer_exceptions, query_name, net))

call_get_saved_queries ==
    /\ Ready
    /\ \E net \in Net :
        Apply("get_saved_queries", << >>,
              get_saved_queries(Self, slicer_exceptions, net))

call_delete_saved_query ==
    /\ Ready
    /\ \E query_name \in Names, net \in Net :
        Apply("delete_saved_query", [query_name |-> query_name],
              delete_saved_query(Self, slicer_exceptions, query_name, net))

call_create_saved_query ==
    /\ Ready
    /\ \E net \in Net :
        Apply("create_saved_query", << >>,
              create_saved_query(Self, slicer_exceptions, net))

call_update_saved_query ==
    /\ Ready
    /\ \E name \in Names, net \in Net :
        Apply("update_saved_query", [name |-> name],
              update_saved_query(Self, slicer_exceptions, name, net))

call_result ==
    /\ Ready
    /\ \E valid \in BOOLEAN, net \in Net :
        Apply("result", [valid |-> valid],
              result(Self, slicer_exceptions, valid, net))

call_score ==
    /\ Ready
    /\ \E valid \in BOOLEAN, net \in Net :
        Apply("score", [valid |-> valid],
              score(Self, slicer_exceptions, valid, net))

Next ==
    \/ call_get_database
    \/ call_create_column
    \/ call_get_columns
    \/ call_insert
    \/ call_count_entity
    \/ call_count_entity_total
    \/ call_count_event
    \/ call_aggregation
    \/ call_top_values
    \/ call_exists_entity
    \/ call_get_saved_query
    \/ call_get_saved_queries
    \/ call_delete_saved_query
    \/ call_create_saved_query
    \/ call_update_saved_query
    \/ call_result
    \/ call_score

\* The client: calls of the public operations, one at a time.
Spec == Init /\ [][Next]_vars

(***************************************************************************)
(* The key resolver called directly                                        *)
(***************************************************************************)

\* The levels an operation may require.
Levels == {0, 1, 2}

InitKeys == InitWith(AllArgs)

call_get_key ==
    /\ Ready
    /\ keycall' = [fn |-> "_get_key", key_level |-> 0, out |-> _get_key(keys)]
    /\ UNCHANGED <<args, init_out, uses_test_endpoint, keys, api_key, status_code, headers,
                   slicer_exceptions, last, looked, nlookups, pc, frame>>

call_check_key ==
    /\ Ready
    /\ \E key_level \in Levels :
        keycall' = [fn |-> "_check_key", key_level |-> key_level,
                    out |-> _check_key(keys, key_level)]
    /\ UNCHANGED <<args, init_out, uses_test_endpoint, keys, api_key, status_code, headers,
                   slicer_exceptions, last, looked, nlookups, pc, frame>>

NextKeys ==
    \/ call_get_key
    \/ call_check_key

\* Key resolution and the authorization check, for every choice of the keys.
SpecKeys == InitKeys /\ [][NextKeys]_vars

(***************************************************************************)
(* The error catalog looked up directly                                    *)
(***************************************************************************)

\* The first and the last code of __mapped_errors.
FirstCode == 10

LastCode == 131

\* How many codes below FirstCode and above LastCode are looked up.
CodesBelow == 2

CodesAbove == 2

\* How many lookups a run makes.
MaxLookups == 2

Codes == (FirstCode - CodesBelow) .. (LastCode + CodesAbove)

InitMap == InitWith({key_args(None, None, None, None)})

\* slicer_exceptions[code]
lookup ==
    /\ nlookups < MaxLookups
    /\ \E code \in Codes :
        LET l == slicer_exceptions_getitem(slicer_exceptions, code) IN
        /\ looked' = [code |-> code, value |-> l.value]
        /\ slicer_exceptions' = l.table
    /\ nlookups' = nlookups + 1
    /\ UNCHANGED <<args, init_out, uses_test_endpoint, keys, api_key, status_code, headers, last,
                   keycall, pc, frame>>

\* Lookups in the module's table, mapped and unmapped codes alike.
SpecMap == InitMap /\ [][lookup]_vars

(***************************************************************************)
(* Two threads calling the same client                                     *)
(***************************************************************************)

\* The (req_type, key_level, json_data) the public operations pass to
\* _make_request; the url is the base url they start from.
Requests ==
    { <<"post", 0, dumps>>, <<"post", 1, dumps>>, <<"post", 2, dumps>>,
      <<"put", 2, dumps>>, <<"get", 0, None>>, <<"get", 2, None>>,
      <<"delete", 2, None>> }

\* Thread t enters _make_request: key check and the Requester call.  A call that
\* raises here ends; otherwise t holds the response object.
t_send(t) ==
    /\ Ready
    /\ pc[t] = "idle"
    /\ \E rq \in Requests, net \in Net :
        LET s == _make_request_send(Self, _wrapper_test(Self), rq[1], rq[2],
                                    rq[3], net) IN
        IF s.req = None
        THEN UNCHANGED <<pc, frame>>
        ELSE /\ pc' = [pc EXCEPT ![t] = "handle"]
             /\ frame' = [frame EXCEPT ![t] = s.req]
    /\ UNCHANGED <<args, init_out, uses_test_endpoint, keys, api_key, status_code, headers,
                   slicer_exceptions, last, keycall, looked, nlookups>>

\* Thread t runs _handler_request up to the call of _set_properties_values.
t_handle(t) ==
    /\ pc[t] = "handle"
    /\ LET h == _handler_request(slicer_exceptions, frame[t]) IN
        /\ slicer_exceptions' = h.table
        /\ IF h.store = None
           THEN /\ pc' = [pc EXCEPT ![t] = "idle"]
                /\ frame' = [frame EXCEPT ![t] = None]
           ELSE /\ pc' = [pc EXCEPT ![t] = "set_status"]
                /\ frame' = [frame EXCEPT ![t] = h.store]
    /\ UNCHANGED <<args, init_out, uses_test_endpoint, keys, api_key, status_code, headers, last,
                   keycall, looked, nlookups>>

\* self.__status_code = int(sd_response.status_code)
t_set_status(t) ==
    /\ pc[t] = "set_status"
    /\ status_code' = _set_properties_values(frame[t][1]).status_code
    /\ pc' = [pc EXCEPT ![t] = "set_headers"]
    /\ UNCHANGED <<args, init_out, uses_test_endpoint, keys, api_key, headers, slicer_exceptions,
                   last, keycall, looked, nlookups, frame>>

\* self.__headers = dict(sd_response.headers), and the call returns.
t_set_headers(t) ==
    /\ pc[t] = "set_headers"
    /\ headers' = _set_properties_values(frame[t][1]).headers
    /\ pc' = [pc EXCEPT ![t] = "idle"]
    /\ frame' = [frame EXCEPT ![t] = None]
    /\ UNCHANGED <<args, init_out, uses_test_endpoint, keys, api_key, status_code,
                   slicer_exceptions, last, keycall, looked, nlookups>>

NextConc ==
    \E t \in Threads :
        \/ t_send(t)
        \/ t_handle(t)
        \/ t_set_status(t)
        \/ t_set_headers(t)

\* Calls of _make_request by two threads, interleaved statement by statement.
SpecConc == Init /\ [][NextConc]_vars

(***************************************************************************)
(* Properties                                                              *)
(***************************************************************************)

\* The key slots from the highest priority to the lowest, and their levels.
Priority == <<"master_key", "custom_key", "write_key", "read_key">>

SlotLevel == <<2, 2, 1, 0>>

\* Slot i is the first slot the caller set.
FirstSet(i) ==
    /\ args[Priority[i]] # None
    /\ \A j \in 1 .. (i - 1) : args[Priority[j]] = None

NotAllowed ==
    Raise("InvalidSlicingDiceKeysException",
          "This key is not allowed to perform this operation.")

NoKey == Raise("InvalidSlicingDiceKeysException", "You need put a key.")

\* C1: whenever at least one key slot is set, _get_key returns the key of the
\* first set slot in the order master, custom, write, read, with level 2 for
\* master and custom, 1 for write and 0 for read, whatever the slots after it
\* hold; the constructor stores that key as the key to send.
C1_FirstSetSlotWins ==
    /\ Ready =>
        \A i \in 1 .. 4 : FirstSet(i) => api_key = args[Priority[i]]
    /\ keycall.fn = "_get_key" =>
        \A i \in 1 .. 4 :
            FirstSet(i) =>
                keycall.out = Return(<<args[Priority[i]][1], SlotLevel[i]>>)

\* C1 witness: write and read keys are both set and differ, master and custom
\* are not, and _get_key has returned the write key with level 1.
C1_Witness ==
    /\ keycall.fn = "_get_key"
    /\ args.master_key = None /\ args.custom_key = None
    /\ args.write_key = Some("k1") /\ args.read_key = Some("k2")
    /\ keycall.out = Return(<<"k1", 1>>)

\* Every slot is None or holds the empty string.
NoNonEmptyKey ==
    \A i \in 1 .. 4 : args[Priority[i]] \in {None, Some("")}

\* C2: when no slot holds a non-empty key the constructor raises
\* InvalidSlicingDiceKeysException and no request is ever sent; so a client
\* exists only if some slot holds a non-empty key.
C2_NonEmptyKeyRequired ==
    /\ NoNonEmptyKey => init_out = NoKey /\ last.sent = << >>
    /\ Ready => ~NoNonEmptyKey

\* The level of the first set slot, for a client that exists.
ResolvedLevel == SlotLevel[CHOOSE i \in 1 .. 4 : FirstSet(i)]

ResolvedKey == args[Priority[CHOOSE i \in 1 .. 4 : FirstSet(i)]][1]

\* C3: with L the resolved level and R the required level, _check_key returns
\* the resolved key if and only if L = 2 or L = R, and otherwise raises the
\* not-allowed error: a read key against a write operation fails and a write
\* key against a read operation fails.
C3_ExactMatchAuthorization ==
    keycall.fn = "_check_key" =>
        IF ResolvedLevel = 2 \/ ResolvedLevel = keycall.key_level
        THEN keycall.out = Return(ResolvedKey)
        ELSE keycall.out = NotAllowed

\* C3 witness: a write key checked against a read operation has been refused.
C3_Witness ==
    /\ keycall.fn = "_check_key"
    /\ ResolvedLevel = 1
    /\ keycall.key_level = 0
    /\ keycall.out = NotAllowed

\* The operations by the level the data model gives them: the query family,
\* and the two write operations; every other operation is a master operation.
ReadClass ==
    {"count_entity", "count_entity_total", "count_event", "aggregation",
     "top_values", "exists_entity", "get_saved_query", "result", "score"}

WriteClass == {"insert", "create_column"}

\* The latest call's payload obeys the rules of its operation.
PayloadValid ==
    CASE "valid" \in DOMAIN last.input -> last.input.valid
      [] "has_query" \in DOMAIN last.input ->
            last.input.has_query /\ last.input.ncols <= 5
      [] "nids" \in DOMAIN last.input -> last.input.nids <= 100
      [] OTHER -> TRUE

\* A write key passes for the query family too.
PermittedHierarchy(level, op) ==
    \/ level = 2
    \/ level = 1 /\ op \in ReadClass \cup WriteClass
    \/ level = 0 /\ op \in ReadClass

\* A write key passes for the write operations only.
PermittedExact(level, op) ==
    \/ level = 2
    \/ level = 1 /\ op \in WriteClass
    \/ level = 0 /\ op \in ReadClass

\* C4 as stated: a read key is authorized for the query family only, a write
\* key for the query family and for insert and create_column, a master or
\* custom key for every operation.
C4_WriteKeyCoversReads ==
    (last.op # "" /\ PayloadValid) =>
        ((last.out # NotAllowed) <=> PermittedHierarchy(ResolvedLevel, last.op))

\* C4 as amended: a read key is authorized for the query family only, a write
\* key for insert and create_column only (not for the query family), a master
\* or custom key for every operation.
C4_WriteKeyWritesOnly ==
    (last.op # "" /\ PayloadValid) =>
        ((last.out # NotAllowed) <=> PermittedExact(ResolvedLevel, last.op))

\* C4 witness: a client whose resolved key is a write key has called
\* count_entity with a valid query and was refused.
C4_Witness ==
    /\ last.op = "count_entity"
    /\ PayloadValid
    /\ ResolvedLevel = 1
    /\ last.out = NotAllowed

\* C5: a call of a public operation calls the Requester exactly once when
\* its payload is valid and its key is allowed, and not at all otherwise;
\* never twice, whatever the response is.
C5_OneRequestPerCall ==
    last.op # "" =>
        Len(last.sent) =
            IF PayloadValid /\ PermittedExact(ResolvedLevel, last.op)
            THEN 1 ELSE 0

\* C5 witness: a call whose one exchange with the network failed ended with
\* that failure after one Requester call.
C5_Witness ==
    /\ last.op = "aggregation"
    /\ Len(last.sent) = 1
    /\ last.out = Raise("RequestException", "")

\* The latest call received a response whose body decodes.
Decoded == loads(last.req[1].text)

GotJson == last.req # None /\ Decoded.kind = "return"

GotCode == GotJson /\ "code" \in DOMAIN Decoded.value

\* The class the catalog as built gives for a code.
MappedKind(code) ==
    IF code \in DOMAIN mapped_errors THEN mapped_errors[code]
    ELSE "SlicingDiceException"

\* C6: when the decoded body carries an error code the call raises the
\* class mapped from the code whatever the status is, 200 included (code 42
\* gives FieldIntegerValuesException); SlicingDiceHTTPError is raised only for
\* a body without an error code under a status other than 200.
C6_ServiceErrorFirst ==
    /\ GotCode =>
        /\ last.out.kind = "raise"
        /\ last.out.exc = MappedKind(Decoded.value.code)
        /\ last.req[1].text = TextCode42 =>
               last.out.exc = "FieldIntegerValuesException"
    /\ (last.out.kind = "raise" /\ last.out.exc = "SlicingDiceHTTPError") =>
        /\ GotJson
        /\ ~GotCode
        /\ last.req[1].status_code # 200

\* C6 witness: a response with a server error status and code 42 in its body
\* has raised FieldIntegerValuesException.
C6_Witness ==
    /\ last.req # None
    /\ last.req[1].status_code = 500
    /\ last.req[1].text = TextCode42
    /\ last.out.kind = "raise"
    /\ last.out.exc = "FieldIntegerValuesException"

\* C7: when the response has status 200 and a JSON body without an error
\* code, the call returns the decoded body, and on return status_code is 200
\* and headers is the header mapping of that response.
C7_SuccessStoresMetadata ==
    (GotJson /\ ~GotCode /\ last.req[1].status_code = 200) =>
        /\ last.out = Return(Decoded.value)
        /\ last.req[1].text = TextOk => last.out = Return([status |-> "ok"])
        /\ status_code = Some(200)
        /\ headers = Some(last.req[1].headers)

\* C7 witness: a call has returned the decoded body of a 200 response that
\* carried the second header mapping.
C7_Witness ==
    /\ last.op = "insert"
    /\ last.out = Return([status |-> "ok"])
    /\ last.req[1].headers = Headers2
    /\ headers = Some(Headers2)
    /\ status_code = Some(200)

\* C8: a lookup of a code the table was built with gives the class listed
\* for it (10, 42 and 131 among them); a lookup of any other code (below 10,
\* above 131, in the gaps) gives SlicingDiceException and does not fail.
C8_LookupTotal ==
    nlookups > 0 =>
        /\ looked.value = MappedKind(looked.code)
        /\ looked.code = 10 => looked.value = "AuthMissingHeaderException"
        /\ looked.code = 42 => looked.value = "FieldIntegerValuesException"
        /\ looked.code = 131 => looked.value = "FieldCreateInternalException"
        /\ looked.code \in {8, 9, 29, 34, 35, 36, 37, 38, 101, 128, 129, 132, 133}
               => looked.value = "SlicingDiceException"

\* C8 witness: code 29, a gap of the table, has been looked up and gave the
\* fallback class.
C8_Witness ==
    /\ nlookups > 0
    /\ looked.code = 29
    /\ looked.value = "SlicingDiceException"

\* C9: after any sequence of lookups the table holds the codes and classes
\* it was built with, and no others.
C9_TableNeverMutated == slicer_exceptions = mapped_errors

\* A step changes the table only by adding one code it did not hold, with
\* the fallback class.
TableOnlyGrows ==
    \/ slicer_exceptions' = slicer_exceptions
    \/ \E code \in DOMAIN slicer_exceptions' :
        /\ code \notin DOMAIN slicer_exceptions
        /\ code \notin DOMAIN mapped_errors
        /\ slicer_exceptions' = slicer_exceptions @@ (code :> "SlicingDiceException")

\* A step changes status_code or headers only as one of the two assignments
\* of a call that got status 200 and a body without an error code: status_code
\* becomes 200, or headers becomes that response's header mapping.
MetadataOnlyOnSuccess ==
    \/ status_code' = status_code /\ headers' = headers
    \/ \E t \in Threads :
        /\ pc[t] \in {"set_status", "set_headers"}
        /\ frame[t][1].status_code = 200
        /\ "code" \notin DOMAIN frame[t][1].result
        /\ \/ status_code' = Some(200) /\ headers' = headers
           \/ headers' = Some(frame[t][1].headers) /\ status_code' = status_code

SavedQueryUrl(name) ==
    (IF uses_test_endpoint
     THEN <<"https://api.slicingdice.com/v1", "/test">>
     ELSE <<"https://api.slicingdice.com/v1">>)
    \o <<"URLResources.QUERY_SAVED", name>>

Validating ==
    {"create_column", "insert", "count_entity", "count_event", "aggregation",
     "top_values", "exists_entity", "result", "score"}

\* The classes raised for a payload that breaks a rule.
ValidationErrors == {"ValidationError", "InvalidQueryException", "MaxLimitException"}

\* C12: when the payload of a validating operation is invalid and the key is
\* also not allowed for the operation, the call fails with the validation
\* error, not with the not-allowed error, and no request is sent.
C12_ValidationBeforeAuthorization ==
    (/\ last.op \in Validating
     /\ ~PayloadValid
     /\ ~PermittedExact(ResolvedLevel, last.op)) =>
        /\ last.out.kind = "raise"
        /\ last.out.exc \in ValidationErrors
        /\ last.out # NotAllowed
        /\ last.sent = << >>

\* C12 witness: a client whose resolved key is a read key has called
\* create_column with an invalid column and got the validation error.
C12_Witness ==
    /\ last.op = "create_column"
    /\ ResolvedLevel = 0
    /\ ~last.input.valid
    /\ last.out = Raise("ValidationError", "ColumnValidator")
    /\ last.sent = << >>

\* C13: status_code and headers are None after construction; a call that
\* raises (validation, key, no response, decode, mapped service error, status
\* other than 200) leaves both as they were, and a call that returns sets them
\* to 200 and to the header mapping of its response.  So after any calls they
\* are None when none has returned yet, and otherwise those of the latest call
\* that returned.
C13_FailedCallKeepsMetadata ==
    /\ status_code = None /\ headers = None
    /\ [][IF last'.out.kind = "return"
          THEN /\ status_code' = Some(200)
               /\ headers' = Some(last'.req[1].headers)
          ELSE /\ status_code' = status_code
               /\ headers' = headers]_vars

\* C13 witness: after a call that returned with the second header mapping, a
\* later call got status 500 with the first header mapping and raised
\* SlicingDiceHTTPError; the properties still hold 200 and the second mapping.
C13_Witness ==
    /\ last.out.kind = "raise"
    /\ last.out.exc = "SlicingDiceHTTPError"
    /\ last.req[1].status_code = 500
    /\ last.req[1].headers = Headers1
    /\ status_code = Some(200)
    /\ headers = Some(Headers2)

====
